---- MODULE Spec2Model ----
(***************************************************************************)
(* Client call surface of grpc-js: the unary response handler of           *)
(* client.ts and the surface streams of call.ts, driven by one Call.       *)
(*                                                                         *)
(* The Call itself (call-stream.ts) is not part of the sources at hand;    *)
(* it is modelled from the specification's section 4.4 (state machine,     *)
(* cancellation, ordering invariants) and from the contract the unary      *)
(* handler documents in client.ts lines 106-109.                           *)
(*                                                                         *)
(* JavaScript runs every event handler to completion, so one emission of   *)
(* a Call event together with all of its listeners is one atomic action.   *)
(***************************************************************************)
EXTENDS Naturals, Sequences, FiniteSets, TLC

(* ---- bounds ---- *)
\* messages a server sends on one call
MaxMessages == 3
\* cancel() invocations on one surface
MaxCancels == 2
\* buffer size at which push() of the object-mode stream returns false
HighWaterMark == 2
\* chunks the application writes to a writable or duplex surface
MaxWrites == 2
\* waitForReady invocations, one after the other
MaxWaits == 2

(* ---- data ---- *)
UnaryKinds == {"unary", "clientStream"}
ReadableKinds == {"serverStream", "bidi"}
WritableKinds == {"clientStream", "bidi"}
Kinds == UnaryKinds \cup ReadableKinds

\* wire payloads a server may send; "0AFF" is one the deserializer rejects
Payloads == {"0A02XY", "0A02ZW", "0AFF"}

\* deserialize: (chunk: Buffer) => ResponseType, throws on a malformed chunk;
\* a ResponseType is never null (null is the handler's "no message" value)
CanDeserialize(data) == data # "0AFF"
Deserialize(data) ==
  CASE data = "0A02XY" -> "respXY"
    [] data = "0A02ZW" -> "respZW"
    [] OTHER -> "garbage"

\* request values; serialize throws on "reqBad"
Requests == {"reqABC", "reqBad"}
CanSerialize(value) == value # "reqBad"
Serialize(value) ==
  CASE value = "reqABC" -> "0A03ABC"
    [] OTHER -> "unserializable"

\* WriteObject = {message, flags?}
WriteObject(message, flags) == [message |-> message, flags |-> flags]

Null == "null"
Undefined == "undefined"

EmptyMetadata == << >>
TrailingMetadata == << "trailer-k" >>

StatusObject(code, details, metadata) ==
  [code |-> code, details |-> details, metadata |-> metadata]

NoStatus == StatusObject("NONE", "", EmptyMetadata)

\* statuses the server may put in its trailers
ServerStatuses ==
  { StatusObject("OK", "", EmptyMetadata),
    StatusObject("OK", "", TrailingMetadata),
    StatusObject("NOT_FOUND", "no such entity", TrailingMetadata) }

Frame(type, data, status) == [type |-> type, data |-> data, status |-> status]
Event(type, data, status) == [type |-> type, data |-> data, status |-> status]

\* ServiceError = Object.assign(new Error(status.details), status)
ServiceError(status) ==
  [message |-> status.details, code |-> status.code,
   details |-> status.details, metadata |-> status.metadata]

NoError == [message |-> "", code |-> "NONE", details |-> "", metadata |-> EmptyMetadata]

VARIABLES
  kind,              \* surface variant of the dispatched call, "none" before
  server,            \* what the server has sent: "init", "headers", "done"
  wire,              \* every message payload the server has sent, in order
  call,              \* the Call
  responseMessage,   \* handleUnaryResponse's closure variable
  callbackLog,       \* invocations of the unary callback
  surface,           \* the surface object returned to the application
  cancels,           \* number of cancel() invocations on the surface
  cancelledOpen,     \* some cancel() was invoked while the Call was open
  thrown,            \* the exception a dispatch method threw, "none" if none
  created,           \* number of Channel.createCall invocations
  writeLog,          \* per _write: the chunk and what was done with its callback
  channel,           \* the Channel's connectivity state, and whether it is closed
  waiting            \* the waitForReady invocation in progress

callVars == << kind, server, wire, call, responseMessage, callbackLog, surface,
               cancels, cancelledOpen, thrown, created, writeLog >>

vars == << kind, server, wire, call, responseMessage, callbackLog, surface,
           cancels, cancelledOpen, thrown, created, writeLog, channel, waiting >>

(* ---- the Call ---- *)

NewCall ==
  [closed |-> FALSE, finalStatus |-> NoStatus, trailers |-> NoStatus,
   paused |-> FALSE, inflight |-> << >>, recv |-> "R0",
   endEmitted |-> FALSE, statusEmitted |-> FALSE, events |-> << >>,
   ops |-> << >>]

\* an operation the client invokes on the Call
Op(op, message, flags) == [op |-> op, message |-> message, flags |-> flags]

setCredentials(c) == [c EXCEPT !.ops = Append(@, Op("setCredentials", "", "none"))]
sendMetadata(c) == [c EXCEPT !.ops = Append(@, Op("sendMetadata", "", "none"))]
write(c, writeObj) ==
  [c EXCEPT !.ops = Append(@, Op("write", writeObj.message, writeObj.flags))]
end(c) == [c EXCEPT !.ops = Append(@, Op("end", "", "none"))]

\* cancelWithStatus: valid from any non-terminal state, one-shot; resets the
\* transport stream and synthesizes the status with empty metadata
cancelWithStatus(c, code, details) ==
  IF c.closed
  THEN c
  ELSE [c EXCEPT !.closed = TRUE,
                 !.finalStatus = StatusObject(code, details, EmptyMetadata),
                 !.inflight = << >>]

pause(c) == [c EXCEPT !.paused = TRUE]
resume(c) == [c EXCEPT !.paused = FALSE]

\* the status a 'status' event carries: a cancellation made before the event
\* is emitted wins over the status computed from the trailers
FinalStatus(c) == IF c.closed THEN c.finalStatus ELSE c.trailers

(* ---- Node's object-mode Readable, as the surface stream uses it ---- *)

NewSurface ==
  [events |-> << >>, buffer |-> << >>, pushed |-> << >>, eof |-> 0,
   statusEmitted |-> FALSE, onceStatus |-> 0]

\* stream.push(value): buffers the value; FALSE once the buffer has reached
\* the high-water mark
push(s, value) ==
  [stream |-> [s EXCEPT !.buffer = Append(@, value), !.pushed = Append(@, value)],
   more |-> Len(s.buffer) + 1 < HighWaterMark]

\* stream.push(null): signals end-of-stream
pushNull(s) == [s EXCEPT !.eof = @ + 1]

emit(s, type, status) == [s EXCEPT !.events = Append(@, Event(type, "", status))]

emitError(s, error) ==
  [s EXCEPT !.events =
     Append(@, Event("error", error.message,
                     StatusObject(error.code, error.details, error.metadata)))]

(* ---- client.ts: handleUnaryResponse ---- *)

\* data handler that keeps the raw chunk
UnaryOnData_KeepsRaw(c, rm, data) ==
  LET c1 == IF rm # Null
            THEN cancelWithStatus(c, "INTERNAL", "Too many responses received")
            ELSE c
  IN IF CanDeserialize(data)
     THEN [call |-> c1, responseMessage |-> data]
     ELSE [call |-> cancelWithStatus(c1, "INTERNAL", "Failed to parse server response"),
           responseMessage |-> rm]

\* data handler without the check for a second message
UnaryOnData_NoArityCheck(c, rm, data) ==
  IF CanDeserialize(data)
  THEN [call |-> c, responseMessage |-> Deserialize(data)]
  ELSE [call |-> cancelWithStatus(c, "INTERNAL", "Failed to parse server response"),
        responseMessage |-> rm]

\* data handler that swallows a deserialization failure
UnaryOnData_NoParseCancel(c, rm, data) ==
  LET c1 == IF rm # Null
            THEN cancelWithStatus(c, "INTERNAL", "Too many responses received")
            ELSE c
  IN IF CanDeserialize(data)
     THEN [call |-> c1, responseMessage |-> Deserialize(data)]
     ELSE [call |-> c1, responseMessage |-> rm]

\* call.on('data', ...)
UnaryOnData(c, rm, data) ==
  LET c1 == IF rm # Null
            THEN cancelWithStatus(c, "INTERNAL", "Too many responses received")
            ELSE c
  IN IF CanDeserialize(data)
     THEN [call |-> c1, responseMessage |-> Deserialize(data)]
     ELSE [call |-> cancelWithStatus(c1, "INTERNAL", "Failed to parse server response"),
           responseMessage |-> rm]

\* end handler without the check for a missing message
UnaryOnEnd_NoCheck(c, rm) == c

\* call.on('end', ...)
UnaryOnEnd(c, rm) ==
  IF rm = Null
  THEN cancelWithStatus(c, "INTERNAL", "Not enough responses received")
  ELSE c

\* status handler whose error is new Error(status.details) alone
UnaryOnStatus_MessageOnly(status, rm) ==
  IF status.code = "OK"
  THEN [err |-> NoError, value |-> rm]
  ELSE [err |-> [message |-> status.details, code |-> Undefined,
                 details |-> Undefined, metadata |-> EmptyMetadata],
        value |-> Undefined]

\* call.on('status', ...): the arguments the callback is invoked with
UnaryOnStatus(status, rm) ==
  IF status.code = "OK"
  THEN [err |-> NoError, value |-> rm]
  ELSE [err |-> ServiceError(status), value |-> Undefined]

\* status listener that invokes the callback twice
UnaryStatusListener_Twice(status, rm) ==
  << UnaryOnStatus(status, rm), UnaryOnStatus(status, rm) >>

\* the invocations of callback made by the listener registered with
\* call.on('status', ...)
UnaryStatusListener(status, rm) == << UnaryOnStatus(status, rm) >>

(* ---- call.ts: the surfaces ---- *)

\* call.on('metadata', ...) of the four surface constructors
SurfaceOnMetadata(s) == emit(s, "metadata", NoStatus)

\* surface that does not forward status
SurfaceOnStatus_Silent(s, status) == s

\* call.on('status', ...) of ClientUnaryCallImpl and ClientWritableStreamImpl
SurfaceOnStatus(s, status) == emit(s, "status", status)

\* cancel() with another status
SurfaceCancel_Internal(c) == cancelWithStatus(c, "INTERNAL", "Cancelled on client")

\* cancel() that does nothing
SurfaceCancel_NoOp(c) == c

\* cancel() of the four surfaces
SurfaceCancel(c) == cancelWithStatus(c, "CANCELLED", "Cancelled on client")

\* data handler that ignores the result of push
ReadableOnData_NoPause(c, s, data) ==
  IF ~CanDeserialize(data)
  THEN [call |-> cancelWithStatus(c, "INTERNAL", "Failed to parse server response"),
        stream |-> s]
  ELSE [call |-> c, stream |-> push(s, Deserialize(data)).stream]

\* data handler that does not return after a failed deserialization
ReadableOnData_NoReturn(c, s, data) ==
  LET c1 == IF ~CanDeserialize(data)
            THEN cancelWithStatus(c, "INTERNAL", "Failed to parse server response")
            ELSE c
      p == push(s, Deserialize(data))
  IN [call |-> IF p.more THEN c1 ELSE pause(c1), stream |-> p.stream]

\* setUpReadableStream: call.on('data', ...)
ReadableOnData(c, s, data) ==
  IF ~CanDeserialize(data)
  THEN [call |-> cancelWithStatus(c, "INTERNAL", "Failed to parse server response"),
        stream |-> s]
  ELSE LET p == push(s, Deserialize(data))
       IN [call |-> IF p.more THEN c ELSE pause(c), stream |-> p.stream]

\* end handler that does not wait for status
ReadableOnEnd_Immediate(s) == pushNull(s)

\* setUpReadableStream: call.on('end', ...)
ReadableOnEnd(s) ==
  IF s.statusEmitted
  THEN pushNull(s)
  ELSE [s EXCEPT !.onceStatus = @ + 1]

\* status handler that emits status before error
ReadableOnStatus_ErrorAfter(s, status) ==
  LET s1 == emit(s, "status", status)
      s2 == IF status.code # "OK" THEN emitError(s1, ServiceError(status)) ELSE s1
  IN [s2 EXCEPT !.statusEmitted = TRUE]

\* setUpReadableStream: call.on('status', ...)
ReadableOnStatus(s, status) ==
  LET s1 == IF status.code # "OK" THEN emitError(s, ServiceError(status)) ELSE s
      s2 == emit(s1, "status", status)
  IN [s2 EXCEPT !.statusEmitted = TRUE]

\* the listeners the end handler registered with call.once('status', ...)
OnceStatus(s) == [s EXCEPT !.eof = @ + s.onceStatus, !.onceStatus = 0]

\* _read that leaves the Call as it is
Read_NoResume(c) == c

\* _read(size) of ClientReadableStreamImpl and ClientDuplexStreamImpl
Read(c) == resume(c)

(* ---- call.ts: the writable side ---- *)

\* the encoding argument of _write: what Node passes for an object-mode write
\* made without an encoding
Encodings == {"utf8"}

\* Number(encoding), "NaN" when the string is not a number
NumberOf(encoding) == IF encoding = "1" THEN "1" ELSE "NaN"

\* tryWrite that goes on to call.write after a serialization failure
tryWrite_NoReturn(c, chunk, encoding) ==
  LET flags == NumberOf(encoding)
      c1 == IF ~CanSerialize(chunk)
            THEN cancelWithStatus(c, "INTERNAL", "Serialization failure")
            ELSE c
  IN [call |-> write(c1, WriteObject(Serialize(chunk),
                                     IF flags # "NaN" THEN flags ELSE "none")),
      cb |-> IF ~CanSerialize(chunk) THEN "cb(e)" ELSE "call.write"]

\* tryWrite(call, serialize, chunk, encoding, cb): the Call afterwards, and
\* whether cb was invoked with the serializer's error or handed to call.write
tryWrite(c, chunk, encoding) ==
  LET flags == NumberOf(encoding)
  IN IF ~CanSerialize(chunk)
     THEN [call |-> cancelWithStatus(c, "INTERNAL", "Serialization failure"),
           cb |-> "cb(e)"]
     ELSE [call |-> write(c, WriteObject(Serialize(chunk),
                                         IF flags # "NaN" THEN flags ELSE "none")),
           cb |-> "call.write"]

(* ---- client.ts: waitForReady ---- *)

ConnectivityState == {"IDLE", "CONNECTING", "READY", "TRANSIENT_FAILURE", "SHUTDOWN"}

\* what waitForReady's callback is invoked with
NoErrorArg == "undefined"
DeadlineError == "Failed to connect before the deadline"
ClosedError == "The channel has been closed"

\* checkState that subscribes again after it has reported READY
checkState_NoElse(err, newState, watchThrows) ==
  IF err
  THEN [callback |-> << DeadlineError >>, watch |-> "none"]
  ELSE IF newState = "throw"
  THEN [callback |-> << ClosedError >>, watch |-> "none"]
  ELSE IF watchThrows
  THEN [callback |-> (IF newState = "READY" THEN << NoErrorArg >> ELSE << >>)
                       \o << ClosedError >>,
        watch |-> "none"]
  ELSE [callback |-> IF newState = "READY" THEN << NoErrorArg >> ELSE << >>,
        watch |-> newState]

\* one run of the checkState closure: err is the argument it is called with,
\* newState what getConnectivityState(true) returns ("throw" when it throws),
\* watchThrows whether watchConnectivityState would throw.  The result is the
\* invocations of callback it makes and the state it subscribes from, if any.
checkState(err, newState, watchThrows) ==
  IF err
  THEN [callback |-> << DeadlineError >>, watch |-> "none"]
  ELSE IF newState = "throw"
  THEN [callback |-> << ClosedError >>, watch |-> "none"]
  ELSE IF newState = "READY"
  THEN [callback |-> << NoErrorArg >>, watch |-> "none"]
  ELSE IF watchThrows
  THEN [callback |-> << ClosedError >>, watch |-> "none"]
  ELSE [callback |-> << >>, watch |-> newState]

\* no waitForReady invocation yet
NotWaiting ==
  [pc |-> "idle", deadline |-> "none", watched |-> "none", log |-> << >>, waits |-> 0]

\* the deadline argument: a time, or Infinity for none
Deadlines == {"finite", "Infinity"}

(* ---- client.ts: dispatch ---- *)

\* what an optional argument of a dispatch method can be at run time:
\* a Metadata, a plain CallOptions object, a function, undefined or null,
\* or a primitive such as a string
ArgTypes == {"Metadata", "Options", "Function", "Undefined", "Primitive"}

IsFunction(arg) == arg = "Function"
IsMetadata(arg) == arg = "Metadata"
\* arg instanceof Object
IsObject(arg) == arg \in {"Metadata", "Options", "Function"}
Truthy(arg) == arg # "Undefined"

Resolved(threw, metadata, options, callback) ==
  [threw |-> threw, metadata |-> metadata, options |-> options, callback |-> callback]

checkOptionalUnaryResponseArguments(arg1, arg2, arg3) ==
  IF IsFunction(arg1)
  THEN Resolved(FALSE, "new Metadata", "{}", arg1)
  ELSE IF IsFunction(arg2)
  THEN IF IsMetadata(arg1)
       THEN Resolved(FALSE, arg1, "{}", arg2)
       ELSE Resolved(FALSE, "new Metadata", arg1, arg2)
  ELSE IF ~(IsMetadata(arg1) /\ IsObject(arg2) /\ IsFunction(arg3))
       THEN Resolved(TRUE, arg1, arg2, arg3)
       ELSE Resolved(FALSE, arg1, arg2, arg3)

checkMetadataAndOptions(arg1, arg2) ==
  IF IsMetadata(arg1)
  THEN Resolved(FALSE, arg1, IF Truthy(arg2) THEN arg2 ELSE "{}", "none")
  ELSE Resolved(FALSE, "new Metadata", IF Truthy(arg1) THEN arg1 ELSE "{}", "none")

Outcome(k, t, n, c) == [kind |-> k, thrown |-> t, created |-> n, call |-> c]

\* dispatch that writes the argument before it sends the metadata
MakeRequest_WriteFirst(k, arg1, arg2, arg3, credentials, argument) ==
  LET r == IF k \in UnaryKinds
           THEN checkOptionalUnaryResponseArguments(arg1, arg2, arg3)
           ELSE checkMetadataAndOptions(arg1, arg2)
      c1 == IF r.options = "Options" /\ credentials
            THEN setCredentials(NewCall)
            ELSE NewCall
      c2 == IF k \in {"unary", "serverStream"}
            THEN end(sendMetadata(write(c1, WriteObject(Serialize(argument), "none"))))
            ELSE sendMetadata(c1)
  IN IF r.threw
     THEN Outcome("none", "Incorrect arguments passed", 0, NewCall)
     ELSE IF r.options = "Undefined"
     THEN Outcome("none", "TypeError", 0, NewCall)
     ELSE IF k \in {"unary", "serverStream"} /\ ~CanSerialize(argument)
     THEN Outcome("none", "serialize error", 1, c1)
     ELSE Outcome(k, "none", 1, IF k \in ReadableKinds THEN pause(c2) ELSE c2)

\* the body shared by makeUnaryRequest, makeClientStreamRequest,
\* makeServerStreamRequest and makeBidiStreamRequest; credentials tells
\* whether a CallOptions object carries call credentials
MakeRequest(k, arg1, arg2, arg3, credentials, argument) ==
  LET r == IF k \in UnaryKinds
           THEN checkOptionalUnaryResponseArguments(arg1, arg2, arg3)
           ELSE checkMetadataAndOptions(arg1, arg2)
      c1 == IF r.options = "Options" /\ credentials
            THEN setCredentials(NewCall)
            ELSE NewCall
      c2 == IF k \in {"unary", "serverStream"}
            THEN end(write(sendMetadata(c1),
                           WriteObject(Serialize(argument), "none")))
            ELSE sendMetadata(c1)
  IN IF r.threw
     THEN Outcome("none", "Incorrect arguments passed", 0, NewCall)
     ELSE IF r.options = "Undefined"
     THEN Outcome("none", "TypeError", 0, NewCall)
     ELSE IF k \in {"unary", "serverStream"} /\ ~CanSerialize(argument)
     THEN Outcome("none", "serialize error", 1, c1)
     ELSE Outcome(k, "none", 1, IF k \in ReadableKinds THEN pause(c2) ELSE c2)

(* ---- state machine ---- *)

Init ==
  /\ kind = "none"
  /\ server = "init"
  /\ wire = << >>
  /\ call = NewCall
  /\ responseMessage = Null
  /\ callbackLog = << >>
  /\ surface = NewSurface
  /\ cancels = 0
  /\ cancelledOpen = FALSE
  /\ thrown = "none"
  /\ created = 0
  /\ writeLog = << >>
  /\ channel = [state |-> "IDLE", closed |-> FALSE]
  /\ waiting = NotWaiting

\* no dispatch method has been invoked on the client yet
NotDispatched == kind = "none" /\ thrown = "none" /\ created = 0

\* make{Unary,ClientStream,ServerStream,BidiStream}Request
DispatchCall(k, arg1, arg2, arg3, credentials, argument) ==
  /\ NotDispatched
  /\ LET r == MakeRequest(k, arg1, arg2, arg3, credentials, argument)
     IN /\ kind' = r.kind
        /\ thrown' = r.thrown
        /\ created' = r.created
        /\ call' = r.call
  /\ responseMessage' = Null
  /\ UNCHANGED << server, wire, callbackLog, surface, cancels, cancelledOpen, writeLog,
                  channel, waiting >>

\* the application invokes one dispatch method, with any arguments
Dispatch ==
  /\ NotDispatched
  /\ \E k \in Kinds, arg1, arg2, arg3 \in ArgTypes, credentials \in BOOLEAN,
        argument \in Requests :
       DispatchCall(k, arg1, arg2, arg3, credentials, argument)

Open == kind # "none" /\ ~call.closed /\ ~call.endEmitted /\ ~call.statusEmitted

ServerHeaders ==
  /\ Open
  /\ server = "init"
  /\ server' = "headers"
  /\ call' = [call EXCEPT !.inflight = Append(@, Frame("headers", "", NoStatus))]
  /\ UNCHANGED << kind, wire, responseMessage, callbackLog, surface, cancels, cancelledOpen,
                  thrown, created, writeLog, channel, waiting >>

ServerMessage(data) ==
  /\ Open
  /\ server = "headers"
  /\ Len(wire) < MaxMessages
  /\ wire' = Append(wire, data)
  /\ call' = [call EXCEPT !.inflight = Append(@, Frame("message", data, NoStatus))]
  /\ UNCHANGED << kind, server, responseMessage, callbackLog, surface, cancels, cancelledOpen,
                  thrown, created, writeLog, channel, waiting >>

ServerTrailers(status) ==
  /\ Open
  /\ server = "headers"
  /\ server' = "done"
  /\ call' = [call EXCEPT !.inflight = Append(@, Frame("trailers", "", status))]
  /\ UNCHANGED << kind, wire, responseMessage, callbackLog, surface, cancels, cancelledOpen,
                  thrown, created, writeLog, channel, waiting >>

HeadIs(c, type) == c.inflight # << >> /\ Head(c.inflight).type = type

CallEmitMetadata ==
  /\ kind # "none"
  /\ ~call.closed
  /\ HeadIs(call, "headers")
  /\ call' = [call EXCEPT !.inflight = Tail(@), !.recv = "R1",
                          !.events = Append(@, Event("metadata", "", NoStatus))]
  /\ surface' = SurfaceOnMetadata(surface)
  /\ UNCHANGED << kind, server, wire, responseMessage, callbackLog, cancels, cancelledOpen,
                  thrown, created, writeLog, channel, waiting >>

CallEmitData ==
  /\ kind # "none"
  /\ ~call.closed
  /\ ~call.paused
  /\ HeadIs(call, "message")
  /\ LET data == Head(call.inflight).data
         c0 == [call EXCEPT !.inflight = Tail(@), !.recv = "R2",
                            !.events = Append(@, Event("data", data, NoStatus))]
     IN IF kind \in UnaryKinds
        THEN LET r == UnaryOnData(c0, responseMessage, data)
             IN /\ call' = r.call
                /\ responseMessage' = r.responseMessage
                /\ surface' = surface
        ELSE LET r == ReadableOnData(c0, surface, data)
             IN /\ call' = r.call
                /\ surface' = r.stream
                /\ responseMessage' = responseMessage
  /\ UNCHANGED << kind, server, wire, callbackLog, cancels, cancelledOpen,
                  thrown, created, writeLog, channel, waiting >>

\* the Call takes the trailers at the head of its inbound queue, if it is
\* not already terminal
TakeTrailers(c) ==
  IF ~c.closed /\ HeadIs(c, "trailers")
  THEN [c EXCEPT !.trailers = Head(c.inflight).status, !.inflight = << >>, !.recv = "R3"]
  ELSE c

Terminating(c) == c.closed \/ HeadIs(c, "trailers")

CallEmitEnd ==
  /\ kind # "none"
  /\ ~call.endEmitted
  /\ Terminating(call)
  /\ LET c0 == [TakeTrailers(call) EXCEPT !.endEmitted = TRUE,
                                          !.events = Append(@, Event("end", "", NoStatus))]
     IN IF kind \in UnaryKinds
        THEN /\ call' = UnaryOnEnd(c0, responseMessage)
             /\ surface' = surface
        ELSE /\ call' = c0
             /\ surface' = ReadableOnEnd(surface)
  /\ UNCHANGED << kind, server, wire, responseMessage, callbackLog, cancels, cancelledOpen,
                  thrown, created, writeLog, channel, waiting >>

\* emission of 'status' to the listeners in registration order
EmitStatus(c0) ==
  LET status == FinalStatus(c0)
  IN /\ call' = [c0 EXCEPT !.closed = TRUE, !.finalStatus = status,
                           !.statusEmitted = TRUE,
                           !.events = Append(@, Event("status", "", status))]
     /\ IF kind \in UnaryKinds
        THEN /\ callbackLog' = callbackLog \o UnaryStatusListener(status, responseMessage)
             /\ surface' = SurfaceOnStatus(surface, status)
        ELSE /\ callbackLog' = callbackLog
             /\ surface' = OnceStatus(ReadableOnStatus(surface, status))
     /\ UNCHANGED << kind, server, wire, responseMessage, cancels, cancelledOpen,
                  thrown, created, writeLog, channel, waiting >>

CallEmitStatus ==
  /\ kind # "none"
  /\ call.endEmitted
  /\ ~call.statusEmitted
  /\ EmitStatus(call)

\* cancel() on the surface
Cancel ==
  /\ kind # "none"
  /\ cancels < MaxCancels
  /\ cancels' = cancels + 1
  /\ cancelledOpen' = (cancelledOpen \/ ~call.closed)
  /\ call' = SurfaceCancel(call)
  /\ UNCHANGED << kind, server, wire, responseMessage, callbackLog, surface,
                  thrown, created, writeLog, channel, waiting >>

\* the Call's deadline elapses while it is non-terminal
Deadline ==
  /\ kind # "none"
  /\ ~call.closed
  /\ call' = cancelWithStatus(call, "DEADLINE_EXCEEDED", "Deadline exceeded")
  /\ UNCHANGED << kind, server, wire, responseMessage, callbackLog, surface, cancels, cancelledOpen,
                  thrown, created, writeLog, channel, waiting >>

\* _read(size) of the readable and duplex surfaces, which the stream calls
\* when its buffer is below the high-water mark and has not ended
StreamRead ==
  /\ kind \in ReadableKinds
  /\ surface.eof = 0
  /\ Len(surface.buffer) < HighWaterMark
  /\ call' = Read(call)
  /\ UNCHANGED << kind, server, wire, responseMessage, callbackLog, surface, cancels, cancelledOpen,
                  thrown, created, writeLog, channel, waiting >>

\* the application takes one value out of the stream's buffer
Consume ==
  /\ kind \in ReadableKinds
  /\ surface.buffer # << >>
  /\ surface' = [surface EXCEPT !.buffer = Tail(@)]
  /\ UNCHANGED << kind, server, wire, call, responseMessage, callbackLog, cancels, cancelledOpen,
                  thrown, created, writeLog, channel, waiting >>

\* _write(chunk, encoding, cb) of the writable and duplex surfaces
StreamWrite(chunk, encoding) ==
  /\ kind \in WritableKinds
  /\ Len(writeLog) < MaxWrites
  /\ LET r == tryWrite(call, chunk, encoding)
     IN /\ call' = r.call
        /\ writeLog' = Append(writeLog, [chunk |-> chunk, cb |-> r.cb])
  /\ UNCHANGED << kind, server, wire, responseMessage, callbackLog, surface,
                  cancels, cancelledOpen, thrown, created, channel, waiting >>

\* what getConnectivityState(true) can do: a closed Channel throws, or
\* reports SHUTDOWN, as its implementation has it
GetConnectivityState ==
  IF channel.closed THEN {"throw", "SHUTDOWN"} ELSE {channel.state}

\* the state after one run of checkState
AfterCheckState(r) ==
  [waiting EXCEPT !.log = @ \o r.callback,
                  !.watched = r.watch,
                  !.pc = IF r.watch # "none" THEN "watching" ELSE "done"]

\* waitForReady(deadline, callback): setImmediate(checkState)
WaitForReady ==
  /\ waiting.pc \in {"idle", "done"}
  /\ waiting.waits < MaxWaits
  /\ \E deadline \in Deadlines :
       waiting' = [pc |-> "scheduled", deadline |-> deadline, watched |-> "none",
                   log |-> << >>, waits |-> waiting.waits + 1]
  /\ UNCHANGED << callVars, channel >>

\* the event loop runs checkState()
RunImmediate ==
  /\ waiting.pc = "scheduled"
  /\ \E newState \in GetConnectivityState :
       waiting' = AfterCheckState(checkState(FALSE, newState, channel.closed))
  /\ UNCHANGED << callVars, channel >>

\* the Channel reports a change from the watched state: checkState()
WatchFires ==
  /\ waiting.pc = "watching"
  /\ channel.state # waiting.watched
  /\ \E newState \in GetConnectivityState :
       waiting' = AfterCheckState(checkState(FALSE, newState, channel.closed))
  /\ UNCHANGED << callVars, channel >>

\* the deadline of the watch elapses: checkState(err)
WatchDeadline ==
  /\ waiting.pc = "watching"
  /\ waiting.deadline = "finite"
  /\ \E newState \in GetConnectivityState :
       waiting' = AfterCheckState(checkState(TRUE, newState, channel.closed))
  /\ UNCHANGED << callVars, channel >>

\* the Channel's connectivity changes
ChannelTransition(state) ==
  /\ ~channel.closed
  /\ state # channel.state
  /\ channel' = [channel EXCEPT !.state = state]
  /\ UNCHANGED << callVars, waiting >>

\* close() of the client closes its Channel
ChannelClose ==
  /\ ~channel.closed
  /\ channel' = [state |-> "SHUTDOWN", closed |-> TRUE]
  /\ UNCHANGED << callVars, waiting >>

NextWait ==
  \/ WaitForReady
  \/ RunImmediate
  \/ WatchFires
  \/ WatchDeadline
  \/ \E state \in ConnectivityState : ChannelTransition(state)
  \/ ChannelClose

SpecWait == Init /\ [][NextWait]_vars

Next ==
  \/ Dispatch
  \/ ServerHeaders
  \/ \E data \in Payloads : ServerMessage(data)
  \/ \E status \in ServerStatuses : ServerTrailers(status)
  \/ CallEmitMetadata
  \/ CallEmitData
  \/ CallEmitEnd
  \/ CallEmitStatus
  \/ Cancel
  \/ Deadline
  \/ StreamRead
  \/ Consume
  \/ \E chunk \in Requests, encoding \in Encodings : StreamWrite(chunk, encoding)

Spec == Init /\ [][Next]_vars

\* a call that is neither cancelled nor given a deadline nor written to,
\* whose events the event loop delivers and whose consumer keeps reading
NextLive ==
  \/ Dispatch
  \/ ServerHeaders
  \/ \E data \in Payloads : ServerMessage(data)
  \/ \E status \in ServerStatuses : ServerTrailers(status)
  \/ CallEmitMetadata
  \/ CallEmitData
  \/ CallEmitEnd
  \/ CallEmitStatus
  \/ StreamRead
  \/ Consume

SpecLive ==
  /\ Init
  /\ [][NextLive]_vars
  /\ WF_vars(CallEmitMetadata)
  /\ WF_vars(CallEmitData)
  /\ WF_vars(CallEmitEnd)
  /\ WF_vars(CallEmitStatus)
  /\ WF_vars(StreamRead)
  /\ WF_vars(Consume)

\* the Call delivers 'status' before 'end'
CallEmitStatusEarly ==
  /\ kind # "none"
  /\ ~call.endEmitted
  /\ ~call.statusEmitted
  /\ Terminating(call)
  /\ EmitStatus(TakeTrailers(call))

NextRace == Next \/ CallEmitStatusEarly

SpecRace == Init /\ [][NextRace]_vars

(* ---- properties ---- *)

TypesOf(events) == [i \in 1..Len(events) |-> events[i].type]
OfType(events, type) == SelectSeq(events, LAMBDA e : e.type = type)
DataEvents == OfType(call.events, "data")
IsPrefix(s, t) == Len(s) <= Len(t) /\ \A i \in 1..Len(s) : s[i] = t[i]

CallbackArgs(err, value) == [err |-> err, value |-> value]
ErrorOf(code, details, metadata) ==
  [message |-> details, code |-> code, details |-> details, metadata |-> metadata]

\* C1: a unary or client-streaming call that received exactly one response
\* message and terminated with status OK has invoked the callback with
\* err = null and the deserialized value of that message.
C1_SingleResponse ==
  (/\ kind \in UnaryKinds
   /\ call.statusEmitted
   /\ call.finalStatus.code = "OK"
   /\ Len(DataEvents) = 1)
  => callbackLog = << CallbackArgs(NoError, Deserialize(DataEvents[1].data)) >>

C1_Witness ==
  /\ kind \in UnaryKinds
  /\ call.statusEmitted
  /\ call.finalStatus.code = "OK"
  /\ wire = << "0A02XY" >>
  /\ Len(DataEvents) = 1
  /\ callbackLog = << CallbackArgs(NoError, "respXY") >>

TooMany == StatusObject("INTERNAL", "Too many responses received", EmptyMetadata)

\* C2: once a second response message has reached the handler of a unary or
\* client-streaming call, the call is cancelled with INTERNAL "Too many
\* responses received", and the callback, when invoked, receives an error
\* with that code and those details and no value.
C2_TooManyResponses ==
  (kind \in UnaryKinds /\ Len(DataEvents) >= 2)
  => /\ call.closed
     /\ call.finalStatus = TooMany
     /\ call.statusEmitted =>
          callbackLog = << CallbackArgs(ServiceError(TooMany), Undefined) >>

C2_Witness ==
  /\ kind \in UnaryKinds
  /\ Len(DataEvents) = 2
  /\ call.statusEmitted
  /\ callbackLog # << >>
  /\ callbackLog[1].err.details = "Too many responses received"

NotEnough == StatusObject("INTERNAL", "Not enough responses received", EmptyMetadata)

\* C3: a unary or client-streaming call that received no response message
\* and whose trailers carried OK terminates with INTERNAL "Not enough
\* responses received"; the callback receives that error and is never invoked
\* with err = null and no response.
C3_NotEnoughResponses ==
  kind \in UnaryKinds =>
    /\ (call.statusEmitted /\ DataEvents = << >> /\ call.trailers.code = "OK")
         => /\ call.finalStatus = NotEnough
            /\ callbackLog = << CallbackArgs(ServiceError(NotEnough), Undefined) >>
    /\ \A i \in 1..Len(callbackLog) :
         ~(callbackLog[i].err = NoError /\ callbackLog[i].value = Null)

C3_Witness ==
  /\ kind \in UnaryKinds
  /\ call.statusEmitted
  /\ wire = << >>
  /\ call.trailers.code = "OK"
  /\ callbackLog = << CallbackArgs(ServiceError(NotEnough), Undefined) >>

\* C4: when a unary or client-streaming call terminates with a non-OK status,
\* the callback is invoked with an error whose code, details and metadata are
\* those of the terminal status, and with no response value.
C4_ErrorStatus ==
  (kind \in UnaryKinds /\ call.statusEmitted /\ call.finalStatus.code # "OK")
  => callbackLog =
       << CallbackArgs(ErrorOf(call.finalStatus.code, call.finalStatus.details,
                               call.finalStatus.metadata), Undefined) >>

\* the deadline elapses and the transport never responds
C4_Witness ==
  /\ kind \in UnaryKinds
  /\ server = "init"
  /\ call.statusEmitted
  /\ callbackLog =
       << CallbackArgs(ErrorOf("DEADLINE_EXCEEDED", "Deadline exceeded", EmptyMetadata),
                       Undefined) >>

Cancelled == StatusObject("CANCELLED", "Cancelled on client", EmptyMetadata)

\* C5: for each surface variant, any number of cancel() invocations, the
\* first of them on a non-terminated call, yields a single terminal status
\* event, with code CANCELLED and details "Cancelled on client".
C5_IdempotentCancel ==
  cancelledOpen =>
    /\ call.closed
    /\ call.finalStatus = Cancelled
    /\ Len(OfType(call.events, "status")) <= 1
    /\ call.statusEmitted =>
         /\ OfType(call.events, "status") = << Event("status", "", Cancelled) >>
         /\ OfType(surface.events, "status") = << Event("status", "", Cancelled) >>

C5_Witness ==
  /\ cancelledOpen
  /\ cancels >= 2
  /\ call.statusEmitted
  /\ OfType(surface.events, "status") = << Event("status", "", Cancelled) >>

Repeat(x, n) == [i \in 1..n |-> x]

\* the Call's event order with n data events, with or without metadata
EventOrder(withMetadata, n) ==
  (IF withMetadata THEN << "metadata" >> ELSE << >>)
    \o Repeat("data", n) \o << "end", "status" >>

Forwarded(events) == SelectSeq(events, LAMBDA e : e.type \in {"metadata", "status"})

\* C6 as stated: every call that has terminated emitted exactly one metadata,
\* zero or more data, exactly one end and exactly one status, in that order,
\* and the surface forwarded metadata and then status.
C6_ExactlyOneMetadata ==
  call.statusEmitted =>
    /\ \E n \in 0..MaxMessages : TypesOf(call.events) = EventOrder(TRUE, n)
    /\ TypesOf(Forwarded(surface.events)) = << "metadata", "status" >>

\* C6 as amended: at every moment the events the Call has emitted are a
\* prefix of: at most one metadata (one if there is any data), zero or more
\* data, exactly one end, exactly one status; a terminated call has emitted
\* that whole sequence; and the surface has forwarded to the application
\* exactly the metadata and status events the Call emitted, in that order.
C6_EventOrder ==
  /\ \E m \in BOOLEAN, n \in 0..MaxMessages :
       /\ n > 0 => m
       /\ IsPrefix(TypesOf(call.events), EventOrder(m, n))
       /\ call.statusEmitted => TypesOf(call.events) = EventOrder(m, n)
  /\ Forwarded(surface.events) = Forwarded(call.events)

\* a terminated call without metadata, and one with metadata and data
C6_Witness ==
  /\ call.statusEmitted
  /\ TypesOf(call.events) = << "metadata", "data", "data", "end", "status" >>
  /\ TypesOf(Forwarded(surface.events)) = << "metadata", "status" >>

ErrorEvent(status) == Event("error", status.details, status)

\* C7: on a readable or duplex surface a non-OK terminal status makes the
\* stream emit an error carrying the status's code, details and metadata
\* immediately before status, and an OK status makes it emit status with no
\* error; the unary and writable surfaces never emit error.
C7_ErrorBeforeStatus ==
  LET ev == surface.events
  IN /\ kind \in UnaryKinds => OfType(ev, "error") = << >>
     /\ kind \in ReadableKinds =>
          /\ \A i \in 1..Len(ev) :
               ev[i].type = "error" =>
                 i < Len(ev) /\ ev[i + 1] = Event("status", "", ev[i].status)
          /\ \A i \in 1..Len(ev) :
               ev[i].type = "status" =>
                 /\ ev[i].status = call.finalStatus
                 /\ IF ev[i].status.code # "OK"
                    THEN i > 1 /\ ev[i - 1] = ErrorEvent(ev[i].status)
                    ELSE OfType(ev, "error") = << >>
     /\ call.statusEmitted => OfType(ev, "status") # << >>

C7_Witness ==
  /\ kind \in ReadableKinds
  /\ call.statusEmitted
  /\ call.finalStatus.code = "NOT_FOUND"
  /\ call.finalStatus.metadata = TrailingMetadata
  /\ Len(surface.events) >= 2
  /\ surface.events[Len(surface.events) - 1] = ErrorEvent(call.finalStatus)
  /\ surface.events[Len(surface.events)].type = "status"

\* C8: on a readable or duplex surface end-of-stream is signalled at most
\* once, never before the surface has emitted status, and exactly once when
\* the Call has delivered both end and status, in either order.
C8_EndOfStream ==
  kind \in ReadableKinds =>
    /\ surface.eof <= 1
    /\ surface.eof >= 1 => Len(OfType(surface.events, "status")) = 1
    /\ (call.endEmitted /\ call.statusEmitted) => surface.eof = 1

\* the Call delivered status before end
C8_Witness ==
  /\ kind \in ReadableKinds
  /\ surface.eof = 1
  /\ Len(call.events) >= 2
  /\ call.events[Len(call.events)].type = "end"
  /\ call.events[Len(call.events) - 1].type = "status"

MessagesOf(frames) ==
  LET ms == SelectSeq(frames, LAMBDA f : f.type = "message")
  IN [i \in 1..Len(ms) |-> ms[i].data]

DataOf(events) ==
  LET ds == OfType(events, "data")
  IN [i \in 1..Len(ds) |-> ds[i].data]

IsRead ==
  /\ call' = resume(call)
  /\ Len(surface.buffer) < HighWaterMark
  /\ UNCHANGED << kind, server, wire, responseMessage, callbackLog, surface,
                  cancels, cancelledOpen,
                  thrown, created, writeLog, channel, waiting >>

\* C9: on a readable or duplex surface the Call is paused at set-up and
\* whenever a push leaves the buffer at its high-water mark; it is resumed
\* only by _read; while it is paused no data event reaches the surface; and
\* as long as the call is not terminated every message the server sent has
\* either reached the surface as a data event or is still queued in order.
C9_BackPressure ==
  [][ kind' \in ReadableKinds =>
        /\ kind = "none" => call'.paused
        /\ (call.paused /\ ~call'.paused) => IsRead
        /\ (kind # "none" /\ call.paused) => DataOf(call'.events) = DataOf(call.events)
        /\ (/\ Len(surface'.pushed) > Len(surface.pushed)
            /\ Len(surface'.buffer) >= HighWaterMark) => call'.paused
        /\ ~call'.closed =>
             wire' = DataOf(call'.events) \o MessagesOf(call'.inflight) ]_vars

\* the buffer reached the high-water mark, the Call is paused and a message
\* is waiting behind the pause
C9_Witness ==
  /\ kind \in ReadableKinds
  /\ call.paused
  /\ ~call.closed
  /\ Len(surface.buffer) = HighWaterMark
  /\ MessagesOf(call.inflight) # << >>

Decodable(payloads) ==
  LET Bad == { i \in 1..Len(payloads) : ~CanDeserialize(payloads[i]) }
      n == IF Bad = {} THEN Len(payloads)
           ELSE (CHOOSE i \in Bad : \A j \in Bad : i <= j) - 1
  IN [i \in 1..n |-> Deserialize(payloads[i])]

\* C10: on a readable or duplex surface the values pushed to the stream are
\* the deserialized data events, each exactly once and in order, and they
\* are the deserialized messages of the wire in wire order up to the first
\* message that fails to deserialize; the stream hands them on in that order.
C10_PushOrder ==
  kind \in ReadableKinds =>
    /\ surface.pushed = Decodable(DataOf(call.events))
    /\ IsPrefix(surface.pushed, Decodable(wire))
    /\ (call.statusEmitted /\ call.trailers # NoStatus) =>
         surface.pushed = Decodable(wire)
    /\ \E k \in 0..Len(surface.pushed) :
         surface.buffer = SubSeq(surface.pushed, k + 1, Len(surface.pushed))

\* three messages pushed across a pause and a resume
C10_Witness ==
  /\ kind \in ReadableKinds
  /\ surface.pushed = << "respXY", "respZW", "respXY" >>
  /\ wire = << "0A02XY", "0A02ZW", "0A02XY" >>

SerializationFailure == StatusObject("INTERNAL", "Serialization failure", EmptyMetadata)

\* C11: when the serializer fails on a chunk written to a writable or duplex
\* surface, the call is cancelled with INTERNAL "Serialization failure" (that
\* is its terminal status if it was not terminated before), the write's
\* callback is invoked with the serializer's error, and Call.write is not
\* invoked for the chunk; a chunk that serializes goes to Call.write.
C11_WriteSerializationFailure ==
  [][ Len(writeLog') > Len(writeLog) =>
        LET e == writeLog'[Len(writeLog')]
        IN IF CanSerialize(e.chunk)
           THEN /\ e.cb = "call.write"
                /\ Len(call'.ops) = Len(call.ops) + 1
                /\ call'.ops[Len(call'.ops)].op = "write"
                /\ call'.ops[Len(call'.ops)].message = Serialize(e.chunk)
                /\ call'.closed = call.closed
           ELSE /\ e.cb = "cb(e)"
                /\ call'.ops = call.ops
                /\ call'.closed
                /\ ~call.closed => call'.finalStatus = SerializationFailure ]_vars

\* the second write fails and the call has terminated with that status
C11_Witness ==
  /\ kind \in WritableKinds
  /\ Len(writeLog) = 2
  /\ writeLog[1].cb = "call.write"
  /\ writeLog[2] = [chunk |-> "reqBad", cb |-> "cb(e)"]
  /\ call.statusEmitted
  /\ call.finalStatus = SerializationFailure
  /\ Len(OfType(surface.events, "status")) = 1

\* the arities the overloads of the dispatch methods declare
RecognizedArity(k, arg1, arg2, arg3) ==
  IF k \in UnaryKinds
  THEN << arg1, arg2, arg3 >> \in
         { << "Function", "Undefined", "Undefined" >>,
           << "Metadata", "Function", "Undefined" >>,
           << "Options", "Function", "Undefined" >>,
           << "Metadata", "Options", "Function" >> }
  ELSE << arg1, arg2, arg3 >> \in
         { << "Undefined", "Undefined", "Undefined" >>,
           << "Metadata", "Undefined", "Undefined" >>,
           << "Options", "Undefined", "Undefined" >>,
           << "Metadata", "Options", "Undefined" >> }

\* C13 as stated: on every dispatch entry point, optional arguments that
\* match no recognized arity make the dispatch fail with "Incorrect arguments
\* passed", and createCall is not invoked.
C13_EveryEntryPointValidates ==
  [][ NotDispatched =>
      \A k \in Kinds, arg1, arg2, arg3 \in ArgTypes, credentials \in BOOLEAN,
         argument \in Requests :
        (/\ DispatchCall(k, arg1, arg2, arg3, credentials, argument)
         /\ ~RecognizedArity(k, arg1, arg2, arg3))
        => (thrown' = "Incorrect arguments passed" /\ created' = 0) ]_vars

\* What the dispatch methods do instead: unary and clientStream fail with
\* "Incorrect arguments passed" exactly when neither of the first two optional
\* arguments is a function and the three are not (Metadata, object, function);
\* serverStream and bidi never fail that way; a recognized arity never fails
\* that way; and a dispatch that fails that way has not invoked createCall.
UnaryArgumentValidation ==
  [][ NotDispatched =>
      \A k \in Kinds, arg1, arg2, arg3 \in ArgTypes, credentials \in BOOLEAN,
         argument \in Requests :
        DispatchCall(k, arg1, arg2, arg3, credentials, argument) =>
          /\ (thrown' = "Incorrect arguments passed") <=>
               (/\ k \in UnaryKinds
                /\ arg1 # "Function" /\ arg2 # "Function"
                /\ ~(arg1 = "Metadata"
                     /\ arg2 \in {"Metadata", "Options", "Function"}
                     /\ arg3 = "Function"))
          /\ RecognizedArity(k, arg1, arg2, arg3) =>
               thrown' # "Incorrect arguments passed"
          /\ thrown' = "Incorrect arguments passed" =>
               (created' = 0 /\ kind' = "none" /\ call'.ops = << >>) ]_vars

OpNames(ops) == [i \in 1..Len(ops) |-> ops[i].op]

\* C15: a dispatch that returns a surface has invoked on the Call, in this
\* order: setCredentials if the options carry credentials, sendMetadata once,
\* and, for unary and serverStream only, write once with the serialized
\* argument and end once; afterwards sendMetadata stays the only one and
\* precedes every write and end.
C15_DispatchOrder ==
  [][ /\ NotDispatched =>
         \A k \in Kinds, arg1, arg2, arg3 \in ArgTypes, credentials \in BOOLEAN,
            argument \in Requests :
           (DispatchCall(k, arg1, arg2, arg3, credentials, argument) /\ kind' # "none")
           => LET body == IF k \in {"unary", "serverStream"}
                          THEN << Op("sendMetadata", "", "none"),
                                  Op("write", Serialize(argument), "none"),
                                  Op("end", "", "none") >>
                          ELSE << Op("sendMetadata", "", "none") >>
              IN \/ call'.ops = body
                 \/ call'.ops = << Op("setCredentials", "", "none") >> \o body
      /\ kind' # "none" =>
           LET names == OpNames(call'.ops)
           IN \E i \in 1..Len(names) :
                /\ names[i] = "sendMetadata"
                /\ \A j \in 1..Len(names) :
                     /\ names[j] = "sendMetadata" => j = i
                     /\ names[j] \in {"write", "end"} => i < j
                     /\ names[j] = "setCredentials" => j < i ]_vars

C15_Witness ==
  /\ kind = "unary"
  /\ call.ops = << Op("setCredentials", "", "none"), Op("sendMetadata", "", "none"),
                   Op("write", "0A03ABC", "none"), Op("end", "", "none") >>

\* C17: when the serializer fails on the argument of a unary or
\* server-streaming dispatch, the Call created for it is cancelled with
\* INTERNAL "Serialization failure"; no Call is left created but neither
\* started nor terminated.
C17_DispatchSerializationFailure ==
  /\ thrown = "serialize error" =>
       (call.closed /\ call.finalStatus = SerializationFailure)
  /\ created = 1 =>
       (call.closed \/ \E i \in 1..Len(call.ops) : call.ops[i].op = "sendMetadata")

FailedParse ==
  StatusObject("INTERNAL", "Failed to parse server response", EmptyMetadata)

BadDataEvent == \E i \in 1..Len(DataEvents) : ~CanDeserialize(DataEvents[i].data)

\* what the application has been told of the terminal status: the callback's
\* error on a unary surface, the error and status events on a readable one
ToldStatus(status) ==
  IF kind \in UnaryKinds
  THEN callbackLog = << CallbackArgs(ServiceError(status), Undefined) >>
  ELSE /\ Len(OfType(surface.events, "error")) = 1
       /\ OfType(surface.events, "error")[1] = ErrorEvent(status)
       /\ OfType(surface.events, "status")[1].status = status

\* the failed message has not reached the application
NotDelivered ==
  /\ \A i \in 1..Len(surface.pushed) : surface.pushed[i] # "garbage"
  /\ Len(surface.pushed) < Len(DataEvents)
  /\ responseMessage # "garbage"
  /\ \A i \in 1..Len(callbackLog) : callbackLog[i].err # NoError

\* C12 as stated: a response message whose deserialization fails cancels the
\* call with INTERNAL "Failed to parse server response", is not delivered to
\* the application, and the terminal status carries exactly that code and
\* those details.
C12_ParseFailureStatus ==
  BadDataEvent =>
    /\ call.closed
    /\ call.finalStatus = FailedParse
    /\ NotDelivered
    /\ call.statusEmitted => ToldStatus(FailedParse)

\* C12 as amended: the same, except that on a unary or client-streaming call
\* a failing message that is the second response leaves the call with the
\* INTERNAL "Too many responses received" its data handler set just before
\* deserializing; no later cancelWithStatus ever replaces either status.
C12_ParseFailureOrTooMany ==
  BadDataEvent =>
    LET status == IF kind \in UnaryKinds /\ Len(DataEvents) >= 2
                  THEN TooMany
                  ELSE FailedParse
    IN /\ call.closed
       /\ call.finalStatus = status
       /\ NotDelivered
       /\ call.statusEmitted => ToldStatus(status)

\* a unary call whose only response failed to parse has run its end handler
\* (which asks for "Not enough responses received") and delivered its status
C12_Witness ==
  /\ kind \in UnaryKinds
  /\ Len(DataEvents) = 1
  /\ BadDataEvent
  /\ responseMessage = Null
  /\ call.endEmitted
  /\ call.statusEmitted
  /\ callbackLog = << CallbackArgs(ServiceError(FailedParse), Undefined) >>

\* C16: in the unary response handler, at the moment status is delivered,
\* status.code is OK if and only if responseMessage is non-null.
C16_OkIffResponse ==
  (kind \in UnaryKinds /\ call.statusEmitted)
  => (call.finalStatus.code = "OK" <=> responseMessage # Null)

\* the direction the handler relies on: a status of OK comes with a response
UnaryOkImpliesResponse ==
  (kind \in UnaryKinds /\ call.statusEmitted /\ call.finalStatus.code = "OK")
  => responseMessage # Null

\* C19: after cancel() on a readable or duplex surface, no further response
\* message is pushed to the stream.
C19_NoPushAfterCancel ==
  [][ (kind \in ReadableKinds /\ cancels > 0)
      => surface'.pushed = surface.pushed ]_vars

\* messages the server had sent were dropped by a cancel, and the call ended
C19_Witness ==
  /\ kind \in ReadableKinds
  /\ cancels > 0
  /\ cancelledOpen
  /\ Len(wire) >= 2
  /\ \A i \in 1..Len(wire) : CanDeserialize(wire[i])
  /\ Len(surface.pushed) = 1
  /\ call.statusEmitted
  /\ call.finalStatus = Cancelled

\* C20: the callback of a unary or client-streaming call is invoked exactly
\* once when the call delivers its status, and never at any other step.
C20_CallbackOnce ==
  [][ /\ kind' \in UnaryKinds =>
           Len(callbackLog') = IF call'.statusEmitted THEN 1 ELSE 0
      /\ kind' \notin UnaryKinds => callbackLog' = << >>
      /\ callbackLog' # callbackLog =>
           (~call.statusEmitted /\ call'.statusEmitted) ]_vars

C20_Witness ==
  /\ kind \in UnaryKinds
  /\ call.statusEmitted
  /\ Len(callbackLog) = 1
  /\ Len(DataEvents) = 2

\* C14: waitForReady invokes its callback at most once per invocation and
\* not within the invocation itself; with no error only when the Channel is
\* READY at that moment; with "Failed to connect before the deadline" exactly
\* when the watch reports an error; with "The channel has been closed" only
\* when the Channel is closed; and otherwise it subscribes again from the
\* state the Channel is in.
C14_WaitForReady ==
  [][ /\ Len(waiting'.log) <= 1
      /\ WaitForReady => (waiting'.log = << >> /\ waiting'.pc = "scheduled")
      /\ WatchDeadline => waiting'.log = << DeadlineError >>
      /\ (waiting.pc \in {"scheduled", "watching"} /\ waiting' # waiting) =>
           \/ /\ waiting'.log = << NoErrorArg >>
              /\ channel.state = "READY" /\ ~channel.closed
              /\ waiting'.pc = "done"
           \/ /\ waiting'.log = << DeadlineError >>
              /\ waiting.pc = "watching"
              /\ waiting'.pc = "done"
           \/ /\ waiting'.log = << ClosedError >>
              /\ channel.closed
              /\ waiting'.pc = "done"
           \/ /\ waiting'.log = << >>
              /\ ~channel.closed
              /\ channel.state # "READY"
              /\ waiting'.pc = "watching"
              /\ waiting'.watched = channel.state ]_vars

\* a second invocation that subscribed once and then saw the Channel READY
C14_Witness ==
  /\ waiting.waits = 2
  /\ waiting.pc = "done"
  /\ waiting.log = << NoErrorArg >>
  /\ channel.state = "READY"

\* the server has sent its last message and trailers with status OK
ServerFinishedOK ==
  /\ server = "done"
  /\ \/ call.trailers.code = "OK"
     \/ \E i \in 1..Len(call.inflight) :
          call.inflight[i].type = "trailers" /\ call.inflight[i].status.code = "OK"

\* C18: on a server-streaming or bidi call whose consumer keeps reading, once
\* the server has sent finitely many decodable messages followed by OK
\* trailers, every message is eventually delivered to the consumer in wire
\* order, status OK is emitted and the stream ends.
C18_StreamCompletes ==
  (/\ kind \in ReadableKinds
   /\ ServerFinishedOK
   /\ \A i \in 1..Len(wire) : CanDeserialize(wire[i]))
  ~> (/\ surface.pushed = Decodable(wire)
      /\ Len(surface.pushed) = Len(wire)
      /\ surface.buffer = << >>
      /\ call.statusEmitted
      /\ call.finalStatus.code = "OK"
      /\ Len(OfType(surface.events, "status")) = 1
      /\ OfType(surface.events, "error") = << >>
      /\ surface.eof = 1)

\* more messages than the buffer holds were all delivered, and the stream ended
C18_Witness ==
  /\ kind \in ReadableKinds
  /\ Len(wire) > HighWaterMark
  /\ surface.pushed = Decodable(wire)
  /\ Len(surface.pushed) = Len(wire)
  /\ surface.buffer = << >>
  /\ call.finalStatus.code = "OK"
  /\ Len(OfType(surface.events, "status")) = 1
  /\ surface.eof = 1

\* the server's trailers ended a unary or client-streaming call that had
\* received no response message, with a status other than OK
NonOkTrailersNoMessage ==
  /\ kind \in UnaryKinds
  /\ DataEvents = << >>
  /\ call.trailers # NoStatus
  /\ call.trailers.code # "OK"
  /\ call.statusEmitted

\* C21: when the server terminates a unary or client-streaming call with
\* non-OK trailers and no response message, the error passed to the callback
\* carries the server's status code and details, not the end handler's
\* INTERNAL "Not enough responses received".
C21_ServerStatusKept ==
  NonOkTrailersNoMessage =>
    /\ call.finalStatus = call.trailers
    /\ callbackLog = << CallbackArgs(ServiceError(call.trailers), Undefined) >>

\* What the handlers do instead: the end handler finds no response and
\* cancels, and the callback receives "Not enough responses received" with
\* none of the server's code, details or trailing metadata.
UnaryNoMessageStatus ==
  NonOkTrailersNoMessage =>
    /\ call.finalStatus = NotEnough
    /\ callbackLog = << CallbackArgs(ServiceError(NotEnough), Undefined) >>

====
